---- MODULE Spec2Model ----
(***************************************************************************)
(* tinybio: encoding and orchestration layer of a privacy-preserving       *)
(* biometric authentication workflow (src/src/tinybio/tinybio.py).         *)
(*                                                                         *)
(* A descriptor component is a real number; here it is the integer n that  *)
(* stands for the real n / Resolution, so that rounding in _encode is      *)
(* exercised.  The secret-sharing engine (tinynmc) is an imported library: *)
(* its four operations are modelled from the contract the specification    *)
(* gives for them, over a field whose prime (FieldPrime) is scaled down to *)
(* fit TLC's integers; tinybio's own code never reads the prime.           *)
(***************************************************************************)
EXTENDS Integers, Sequences, FiniteSets, TLC

\* ------------------------------------------------------------ bounds
NumNodes == 2
MaxLen == 2
Resolution == 1024

Nodes == 1..NumNodes
\* Component values n (the real n / Resolution): -6 quantizes to -2 (a
\* negative tie, -1.5) and 515 to 129 (128.75, rounded up); two components
\* of 129 have squares that sum past FieldPrime.
Components == {-6, 515}
Descriptors == UNION {[1..len -> Components] : len \in 1..MaxLen}
\* Seeds of the secret mask bases the nodes draw at preprocessing.
KeySet == {2, 3}

\* ------------------------------------------------------------ constants
_PRECISION == 8

\* The engine's field prime (scaled: the engine's own is 4215209819).
FieldPrime == 32749

\* A node attribute that was never set, and one that holds a value.
NoAttr == [present |-> FALSE, value |-> <<>>]
Attr(v) == [present |-> TRUE, value |-> v]

\* A node the engine has not preprocessed.
NoMaterial == [present |-> FALSE, signature |-> <<>>, key |-> 0, shares |-> <<>>]

NoScore == [present |-> FALSE, from |-> {}, num |-> 0, den |-> 0, floor |-> 0]

\* ------------------------------------------------------------ helpers
RECURSIVE SumSeq(_)
SumSeq(s) == IF s = <<>> THEN 0 ELSE Head(s) + SumSeq(Tail(s))

RECURSIVE SumOver(_, _)
SumOver(f, S) ==
    IF S = {} THEN 0
    ELSE LET x == CHOOSE y \in S : TRUE IN f[x] + SumOver(f, S \ {x})

\* Python's round(): nearest integer, ties to the even neighbour.
round(num, den) ==
    LET fl == num \div den
        r == num % den
    IN IF 2 * r < den THEN fl
       ELSE IF 2 * r > den THEN fl + 1
       ELSE IF fl % 2 = 0 THEN fl ELSE fl + 1

\* [round(value * (2 ** _PRECISION)) for value in descriptor]
quantize(descriptor) ==
    [k \in 1..Len(descriptor) |-> round(descriptor[k] * (2 ^ _PRECISION), Resolution)]

\* ------------------------------------------------------------ _encode
\* Variants of _encode that differ from it in one place (the anchor's
\* coordinate, the anchor's value, the authentication factor); each is what
\* a slip in that place of the code would give.
encode_variant(descriptor, for_auth, anchor_coord, anchor_scale, auth_factor) ==
    LET reg_0_or_auth_1 == IF for_auth THEN 1 ELSE 0
        encoding == quantize(descriptor)
        factor == IF for_auth THEN auth_factor ELSE 1
        anchor == SumSeq([k \in 1..Len(encoding) |->
                             anchor_scale * encoding[k] * encoding[k]])
        comps == {<<k + 1, reg_0_or_auth_1>> : k \in 1..Len(encoding)}
    IN [c \in {anchor_coord} \cup comps |->
          IF c \in comps THEN factor * encoding[c[1] - 1] ELSE anchor]

\* The authentication coefficient is -value instead of -2 * value.
_encode_factor(descriptor, for_auth) ==
    encode_variant(descriptor, for_auth, <<IF for_auth THEN 1 ELSE 0, 0>>, 1, -1)

\* The anchor is written at (0, 0) for both roles.
_encode_anchor_row(descriptor, for_auth) ==
    encode_variant(descriptor, for_auth, <<0, 0>>, 1, -2)

\* The authentication anchor sums the squares of the coefficients -2 * value.
_encode_anchor_value(descriptor, for_auth) ==
    encode_variant(descriptor, for_auth, <<IF for_auth THEN 1 ELSE 0, 0>>,
                   IF for_auth THEN 4 ELSE 1, -2)

\* The anchor is written at (role, role) instead of (role, 0).
_encode_anchor_col(descriptor, for_auth) ==
    encode_variant(descriptor, for_auth,
                   <<IF for_auth THEN 1 ELSE 0, IF for_auth THEN 1 ELSE 0>>, 1, -2)

\* The dictionary _encode returns: the anchor is written first, then one
\* entry per component at row index = 2, 3, ...; a later write to the same
\* key would replace an earlier one.
_encode(descriptor, for_auth) ==
    LET reg_0_or_auth_1 == IF for_auth THEN 1 ELSE 0
        encoding == quantize(descriptor)
        anchor == SumSeq([k \in 1..Len(encoding) |-> encoding[k] * encoding[k]])
        rows == {k + 1 : k \in 1..Len(encoding)}
    IN [c \in {<<reg_0_or_auth_1, 0>>} \cup {<<index, reg_0_or_auth_1>> : index \in rows} |->
          IF c[1] \in rows /\ c[2] = reg_0_or_auth_1
          THEN (IF for_auth THEN -2 ELSE 1) * encoding[c[1] - 1]
          ELSE anchor]

\* dict.keys(): the keys in insertion order.  _encode inserts the anchor
\* (row 0 or 1) first and then the rows 2, 3, ... in increasing order, so
\* insertion order is the order of the rows.
RECURSIVE dict_keys(_)
dict_keys(coords_to_values) ==
    IF DOMAIN coords_to_values = {} THEN <<>>
    ELSE LET first == CHOOSE c \in DOMAIN coords_to_values :
                          \A o \in DOMAIN coords_to_values : c[1] <= o[1]
         IN <<first>> \o dict_keys([c \in DOMAIN coords_to_values \ {first} |->
                                        coords_to_values[c]])

\* The request is built from the dictionary's items instead of its keys.
request_registration_items(descriptor) ==
    LET coords_to_values == _encode(descriptor, FALSE)
        ks == dict_keys(coords_to_values)
    IN [k \in 1..Len(ks) |-> <<ks[k], coords_to_values[ks[k]]>>]

\* request.registration: request(_encode(descriptor, False).keys())
request_registration(descriptor) == dict_keys(_encode(descriptor, FALSE))

\* request.authentication: request(_encode(descriptor, True).keys())
request_authentication(descriptor) == dict_keys(_encode(descriptor, TRUE))

\* The signature has one anchor position instead of two.
build_signature_one_anchor(length) == <<1>> \o [k \in 1..length |-> 2]

\* signature = [1, 1] + ([2] * length)
build_signature(length) == <<1, 1>> \o [k \in 1..length |-> 2]

\* ------------------------------------------------------------ engine
\* The imported engine, from its contract: masks blind a coefficient
\* multiplicatively, and the nodes hold additive shares of the inverse of
\* each term's combined mask, so that the nodes' results sum to the
\* sum over the terms of the product of the term's unmasked factors.
RECURSIVE Pow(_, _)
Pow(b, e) ==
    IF e = 0 THEN 1
    ELSE IF e % 2 = 0
         THEN LET h == Pow(b, e \div 2) IN (h * h) % FieldPrime
         ELSE (b * Pow(b, e - 1)) % FieldPrime

Inverse(a) == Pow(a % FieldPrime, FieldPrime - 2)

RECURSIVE ProdOver(_, _)
ProdOver(f, S) ==
    IF S = {} THEN 1
    ELSE LET x == CHOOSE y \in S : TRUE
         IN (f[x] * ProdOver(f, S \ {x})) % FieldPrime

\* The slots (term, factor) of a signature: term t has signature[t] factors.
Slots(sig) == {<<t, j>> \in (0..(Len(sig) - 1)) \X (0..1) : j < sig[t + 1]}

\* The mask a node with secret base key holds for a coordinate.
mask_of(key, c) == Pow(key, 1 + 2 * c[1] + c[2])

\* tinynmc.preprocess(signature, nodes): every node of S draws a secret
\* base (keys) and receives its additive share of each term's inverse mask.
engine_preprocess(sig, S, keys) ==
    LET last == CHOOSE n \in S : \A m \in S : m <= n
        total(t) == ProdOver([c \in {d \in Slots(sig) : d[1] = t} |->
                                 ProdOver([n \in S |-> mask_of(keys[n], c)], S)],
                             {d \in Slots(sig) : d[1] = t})
        blind(n, t) == (keys[n] * (t + 2) + n) % FieldPrime
        share(n, t) ==
            IF n # last THEN blind(n, t)
            ELSE (Inverse(total(t))
                    - SumOver([m \in S \ {last} |-> blind(m, t)], S \ {last}))
                 % FieldPrime
    IN [n \in S |-> [present |-> TRUE,
                     signature |-> sig,
                     key |-> keys[n],
                     shares |-> [t \in 0..(Len(sig) - 1) |-> share(n, t)]]]

\* node.masks(request): the node's mask for every requested coordinate.
node_masks(mat, req) ==
    [c \in {req[k] : k \in 1..Len(req)} |-> mask_of(mat.key, c)]

\* tinynmc.masked_factors(coords_to_values, masks)
masked_factors(coords_to_values, masks) ==
    [c \in DOMAIN coords_to_values |->
        ((coords_to_values[c] % FieldPrime)
           * ProdOver([n \in DOMAIN masks |-> masks[n][c]], DOMAIN masks))
        % FieldPrime]

\* node.compute(signature, [registration_token, authentication_token])
compute(mat, sig, registration_token, authentication_token) ==
    LET factors == [c \in DOMAIN registration_token \cup DOMAIN authentication_token |->
                       IF c \in DOMAIN authentication_token
                       THEN authentication_token[c] ELSE registration_token[c]]
        term(t) == (ProdOver([c \in {d \in Slots(sig) : d[1] = t} |-> factors[c]],
                             {d \in Slots(sig) : d[1] = t})
                      * mat.shares[t]) % FieldPrime
    IN IF Slots(sig) \subseteq DOMAIN factors /\ Len(sig) = Len(mat.signature)
       THEN [kind |-> "share",
             val |-> SumOver([t \in 0..(Len(sig) - 1) |-> term(t)],
                             0..(Len(sig) - 1)) % FieldPrime]
       ELSE [kind |-> "KeyError", val |-> 0]

\* ------------------------------------------------------------ state
VARIABLES
    signature,  \* node -> the node's _signature attribute
    material,   \* node -> the engine's preprocessing material
    length,     \* the length argument of the latest preprocess call
    preprocessed, \* whether preprocess has been called
    session,    \* role (0 registration, 1 authentication) -> client session
    shares,     \* node -> outcome of its authenticate call on the held tokens
    score,      \* outcome of the last reveal, until the next authenticate
    revealed    \* whether reveal was called since the latest preprocess call

vars == <<signature, material, length, preprocessed, session, shares, score, revealed>>

Roles == {0, 1}

NoSession ==
    [stage |-> "idle", descriptor |-> <<>>, encoding |-> <<>>, request |-> <<>>,
     masks |-> <<>>, token |-> <<>>]

NoShare == [kind |-> "none", val |-> 0]

Init ==
    /\ signature = [n \in Nodes |-> NoAttr]
    /\ material = [n \in Nodes |-> NoMaterial]
    /\ length = 0
    /\ preprocessed = FALSE
    /\ session = [r \in Roles |-> NoSession]
    /\ shares = [n \in Nodes |-> NoShare]
    /\ score = NoScore
    /\ revealed = FALSE

\* preprocess(nodes, length): build the signature, run the engine's
\* preprocessing with it, attach it to every node of the collection.
\* Preprocessing starts a deployment: the caller discards the sessions,
\* tokens and shares of an earlier one.
preprocess(nodes, len, keys) ==
    LET sig == build_signature(len)
        mat == engine_preprocess(sig, nodes, keys)
    IN /\ material' = [n \in Nodes |-> IF n \in nodes THEN mat[n] ELSE material[n]]
       /\ signature' = [n \in Nodes |-> IF n \in nodes THEN Attr(sig) ELSE signature[n]]
       /\ length' = len
       /\ preprocessed' = TRUE
       /\ shares' = [n \in Nodes |-> NoShare]
       /\ score' = NoScore
       /\ revealed' = FALSE
       /\ session' = [r \in Roles |-> NoSession]

\* The doctests' call: all the deployment's nodes, one descriptor length.
Preprocess ==
    \E len \in 1..MaxLen, seed \in KeySet :
        preprocess(Nodes, len, [n \in Nodes |-> seed + 2 * (n - 1)])

\* The client starts a session for a role with request.registration(d) or
\* request.authentication(d); the token it held for that role, and the
\* shares computed on it, go out of use.
RegistrationRequest ==
    \E descriptor \in Descriptors :
        /\ session' = [session EXCEPT ![0] =
              [NoSession EXCEPT !.stage = "requested",
                                !.descriptor = descriptor,
                                !.encoding = _encode(descriptor, FALSE),
                                !.request = request_registration(descriptor)]]
        /\ shares' = [n \in Nodes |-> NoShare]
        /\ score' = NoScore
        /\ UNCHANGED <<signature, material, length, preprocessed, revealed>>

AuthenticationRequest ==
    \E descriptor \in Descriptors :
        /\ session' = [session EXCEPT ![1] =
              [NoSession EXCEPT !.stage = "requested",
                                !.descriptor = descriptor,
                                !.encoding = _encode(descriptor, TRUE),
                                !.request = request_authentication(descriptor)]]
        /\ shares' = [n \in Nodes |-> NoShare]
        /\ score' = NoScore
        /\ UNCHANGED <<signature, material, length, preprocessed, revealed>>

\* [node.masks(request) for node in nodes]: the engine serves a request
\* whose coordinates are slots of the signature it was preprocessed with.
Masks(r) ==
    /\ session[r].stage = "requested"
    /\ \A n \in Nodes :
          /\ material[n].present
          /\ {session[r].request[k] : k \in 1..Len(session[r].request)}
                \subseteq Slots(material[n].signature)
    /\ session' = [session EXCEPT ![r] =
          [@ EXCEPT !.stage = "masked",
                    !.masks = [n \in Nodes |-> node_masks(material[n], session[r].request)]]]
    /\ UNCHANGED <<signature, material, length, preprocessed, shares, score, revealed>>

\* token.registration(masks, descriptor)
token_registration(masks, descriptor) ==
    masked_factors(_encode(descriptor, FALSE), masks)

\* token.authentication(masks, descriptor)
token_authentication(masks, descriptor) ==
    masked_factors(_encode(descriptor, TRUE), masks)

RegistrationToken ==
    /\ session[0].stage = "masked"
    /\ session' = [session EXCEPT ![0] =
          [@ EXCEPT !.stage = "tokenized",
                    !.token = token_registration(session[0].masks, session[0].descriptor)]]
    /\ UNCHANGED <<signature, material, length, preprocessed, shares, score, revealed>>

AuthenticationToken ==
    /\ session[1].stage = "masked"
    /\ session' = [session EXCEPT ![1] =
          [@ EXCEPT !.stage = "tokenized",
                    !.token = token_authentication(session[1].masks, session[1].descriptor)]]
    /\ UNCHANGED <<signature, material, length, preprocessed, shares, score, revealed>>

\* node.authenticate(registration_token, authentication_token):
\* getattr(self, '_signature') is evaluated first and raises AttributeError
\* when the attribute was never set; otherwise the engine computes.
authenticate(attr, mat, registration_token, authentication_token) ==
    IF ~attr.present
    THEN [kind |-> "AttributeError", val |-> 0]
    ELSE compute(mat, attr.value, registration_token, authentication_token)

\* authenticate removes the node's signature once it has used it.
Authenticate_consuming(n) ==
    /\ \/ ~signature[n].present
       \/ session[0].stage = "tokenized" /\ session[1].stage = "tokenized"
    /\ shares' = [shares EXCEPT ![n] =
          authenticate(signature[n], material[n], session[0].token, session[1].token)]
    /\ signature' = [signature EXCEPT ![n] = NoAttr]
    /\ score' = NoScore
    /\ UNCHANGED <<material, length, preprocessed, session, revealed>>

Authenticate(n) ==
    /\ \/ ~signature[n].present
       \/ session[0].stage = "tokenized" /\ session[1].stage = "tokenized"
    /\ shares' = [shares EXCEPT ![n] =
          authenticate(signature[n], material[n], session[0].token, session[1].token)]
    /\ score' = NoScore
    /\ UNCHANGED <<signature, material, length, preprocessed, session, revealed>>

\* Floor of the square root.
ISqrt(v) == CHOOSE k \in 0..v : k * k <= v /\ (k + 1) * (k + 1) > v

\* reveal(shares): math.sqrt(int(sum(shares)) / (2 ** (2 * _PRECISION))).
\* The result is the square root of num / den; floor is the integer part
\* of the square root of num, that is of the score in units of 2^-_PRECISION.
reveal(vals, from) ==
    LET total == SumOver(vals, from) % FieldPrime
    IN [present |-> TRUE,
        from |-> from,
        num |-> total,
        den |-> 2 ^ (2 * _PRECISION),
        floor |-> ISqrt(total)]

\* The shares passed are those the caller has collected since the last
\* reveal (at least one); the call consumes the collection.
Reveal ==
    LET from == {n \in Nodes : shares[n].kind = "share"}
    IN /\ from # {}
       /\ revealed' = TRUE
       /\ score' = reveal([n \in from |-> shares[n].val], from)
       /\ shares' = [n \in Nodes |-> NoShare]
       /\ UNCHANGED <<signature, material, length, preprocessed, session>>

Next ==
    \/ Preprocess
    \/ RegistrationRequest
    \/ AuthenticationRequest
    \/ \E r \in Roles : Masks(r)
    \/ RegistrationToken
    \/ AuthenticationToken
    \/ \E n \in Nodes : Authenticate(n)
    \/ Reveal

Spec == Init /\ [][Next]_vars

\* ------------------------------------------------------------ claims
\* Quantized components of the registration and authentication descriptors
\* in use, and the squared distance between two quantized descriptors.
X == quantize(session[0].descriptor)
Y == quantize(session[1].descriptor)

SqDist(x, y) == SumSeq([k \in 1..Len(x) |-> (x[k] - y[k]) * (x[k] - y[k])])

SumSquares(q) == SumSeq([k \in 1..Len(q) |-> q[k] * q[k]])

\* Both tokens were made, in this deployment, from descriptors of length L.
ValidPair ==
    /\ preprocessed
    /\ \A r \in Roles :
          session[r].stage = "tokenized" /\ Len(session[r].descriptor) = length

AllShares == \A n \in Nodes : shares[n].kind = "share"

SumShares == SumOver([n \in Nodes |-> shares[n].val], Nodes) % FieldPrime

\* C1: after preprocess(nodes, L), for descriptors x and y of length L, when
\* every node has run authenticate on the two tokens the shares sum modulo
\* p to exactly the sum of (X_i - Y_i)^2 whenever that sum is below p, and
\* reveal on these shares returns the square root of that sum divided by
\* 2^(2 * _PRECISION).
C1_EndToEndDistance ==
    (ValidPair /\ SqDist(X, Y) < FieldPrime) =>
        /\ AllShares => SumShares = SqDist(X, Y)
        /\ (score.present /\ score.from = Nodes) =>
              /\ score.num = SqDist(X, Y)
              /\ score.den = 2 ^ (2 * _PRECISION)
              /\ score.floor * score.floor <= SqDist(X, Y)
              /\ (score.floor + 1) * (score.floor + 1) > SqDist(X, Y)

C1_Witness ==
    /\ ValidPair
    /\ score.present /\ score.from = Nodes
    /\ SqDist(X, Y) > 0 /\ SqDist(X, Y) < FieldPrime
    /\ score.num = SqDist(X, Y)

\* The encoding the convention prescribes for role r and quantized
\* components q.
ConventionEncoding(r, q) ==
    [c \in {<<r, 0>>} \cup {<<i, r>> : i \in 2..(Len(q) + 1)} |->
        IF c = <<r, 0>> THEN SumSquares(q)
        ELSE IF r = 0 THEN q[c[1] - 1] ELSE (-2) * q[c[1] - 1]]

\* C2: the registration encoding is exactly the anchor sum of q_i^2 at (0,0)
\* and +q_i at (i,0), the authentication encoding exactly the anchor at (1,0)
\* and -2*q_i at (i,1); the component rows are distinct, lie in 2..L+1, and
\* there are no other coordinates.
C2_EncodingConvention ==
    \A r \in Roles :
        session[r].stage # "idle" =>
            /\ session[r].encoding = ConventionEncoding(r, quantize(session[r].descriptor))
            /\ Cardinality(DOMAIN session[r].encoding) = Len(session[r].descriptor) + 1
            /\ \A c \in DOMAIN session[r].encoding :
                  c = <<r, 0>> \/ (c[1] \in 2..(Len(session[r].descriptor) + 1) /\ c[2] = r)

C2_Witness ==
    /\ session[0].stage # "idle" /\ session[1].stage # "idle"
    /\ Len(session[0].descriptor) = 2 /\ Len(session[1].descriptor) = 2
    /\ session[0].descriptor[1] # session[0].descriptor[2]
    /\ session[1].encoding[<<1, 0>>] = SumSquares(Y)
    /\ session[1].encoding[<<3, 1>>] = (-2) * Y[2]

\* C3: after preprocess(nodes, L), a descriptor whose length differs from L
\* is refused: no request, token or share is produced for it.
C3_DimensionMismatch ==
    \A r \in Roles :
        (preprocessed /\ session[r].stage # "idle") =>
            Len(session[r].descriptor) = length

\* C4: authenticate on a node that was never preprocessed fails with an
\* explicit "not preprocessed" error.
C4_NotPreprocessed ==
    \A n \in Nodes :
        (~signature[n].present /\ shares[n].kind # "none") =>
            shares[n].kind = "NotPreprocessedError"

\* C5: every encoding the encoder accepts has its sum of squared quantized
\* components strictly below the field prime.
C5_FieldOverflow ==
    \A r \in Roles :
        session[r].stage # "idle" =>
            SumSquares(quantize(session[r].descriptor)) < FieldPrime

\* The signature the data model prescribes for descriptor length L.
ConventionSignature(L) == [k \in 1..(L + 2) |-> IF k <= 2 THEN 1 ELSE 2]

\* C6: after preprocess(nodes, L) every node holds the same signature,
\* [1,1] followed by L entries of 2, the one the engine was preprocessed
\* with, and no request, token, authenticate or reveal step changes it.
C6_SignatureInvariant ==
    /\ [](preprocessed =>
             \A n \in Nodes :
                 /\ signature[n] = Attr(ConventionSignature(length))
                 /\ material[n].present
                 /\ material[n].signature = signature[n].value)
    /\ [][signature' # signature => Preprocess]_vars

C6_Witness ==
    /\ preprocessed
    /\ length = MaxLen
    /\ AllShares
    /\ \A n \in Nodes : Len(signature[n].value) = MaxLen + 2

\* C7: within one preprocessing epoch any number of sessions may be run;
\* in every one the nodes' shares sum to the result for that token pair,
\* and an authenticate call leaves the node's signature and preprocessing
\* material unchanged, so a repeated call returns the same share.
C7_RepeatableAuthentication ==
    /\ []((ValidPair /\ AllShares) => SumShares = SqDist(X, Y) % FieldPrime)
    /\ [][\A n \in Nodes :
             Authenticate(n) =>
                 /\ UNCHANGED <<signature, material, length, preprocessed>>
                 /\ shares[n].kind = "share" => shares'[n] = shares[n]]_vars

C7_Witness ==
    /\ ValidPair
    /\ revealed
    /\ AllShares
    /\ SumShares = SqDist(X, Y) % FieldPrime
    /\ SqDist(X, Y) > 0

\* The request of role r for a descriptor.
RequestOf(r, descriptor) ==
    IF r = 0 THEN request_registration(descriptor)
    ELSE request_authentication(descriptor)

\* C8: a request is exactly the coordinate set of the role's encoding and
\* carries no coefficient; two descriptors of the same length and role give
\* the same request.
C8_RequestPositionsOnly ==
    \A r \in Roles :
        session[r].stage # "idle" =>
            /\ \A other \in Descriptors :
                  Len(other) = Len(session[r].descriptor) =>
                      RequestOf(r, other) = session[r].request
            /\ {session[r].request[k] : k \in 1..Len(session[r].request)}
                   = DOMAIN session[r].encoding
            /\ Len(session[r].request) = Cardinality(DOMAIN session[r].encoding)

C8_Witness ==
    /\ session[0].stage = "requested" /\ session[1].stage = "requested"
    /\ Len(session[0].descriptor) = 2
    /\ session[0].request = <<<<0, 0>>, <<2, 0>>, <<3, 0>>>>
    /\ session[1].request = <<<<1, 0>>, <<2, 1>>>>

\* The score the workflow reveals, under the nodes' present material, when
\* reg is registered and auth is used to authenticate.
Workflow(reg, auth) ==
    LET reg_masks == [n \in Nodes |-> node_masks(material[n], request_registration(reg))]
        auth_masks == [n \in Nodes |-> node_masks(material[n], request_authentication(auth))]
        reg_token == token_registration(reg_masks, reg)
        auth_token == token_authentication(auth_masks, auth)
    IN reveal([n \in Nodes |->
                  authenticate(signature[n], material[n], reg_token, auth_token).val],
              Nodes)

\* C9: the distance revealed with A registered and B authenticating equals
\* the distance revealed with B registered and A authenticating.
C9_Symmetry ==
    (ValidPair /\ score.present /\ score.from = Nodes) =>
        score = Workflow(session[1].descriptor, session[0].descriptor)

C9_Witness ==
    /\ ValidPair
    /\ score.present /\ score.from = Nodes
    /\ session[0].descriptor # session[1].descriptor
    /\ score.num > 0

\* C10: for descriptors of the preprocessed length, every coordinate of the
\* two encodings is a slot of the signature, the two coordinate sets are
\* disjoint, and together they are exactly the signature's slots.
C10_EncodingSignatureConformance ==
    \A n \in Nodes :
        (/\ preprocessed
         /\ \A r \in Roles : session[r].stage # "idle"
                                /\ Len(session[r].descriptor) = length) =>
            LET S == signature[n].value
                slots == {<<row, col>> \in (0..(Len(S) - 1)) \X (0..1) : col < S[row + 1]}
            IN /\ \A r \in Roles : \A c \in DOMAIN session[r].encoding :
                     /\ 0 <= c[1] /\ c[1] < Len(S)
                     /\ 0 <= c[2] /\ c[2] < S[c[1] + 1]
               /\ DOMAIN session[0].encoding \cap DOMAIN session[1].encoding = {}
               /\ DOMAIN session[0].encoding \cup DOMAIN session[1].encoding = slots

C10_Witness ==
    /\ preprocessed /\ length = 2
    /\ \A r \in Roles : session[r].stage = "tokenized" /\ Len(session[r].descriptor) = 2
    /\ Cardinality(DOMAIN session[0].encoding \cup DOMAIN session[1].encoding) = 6

====
